---- MODULE Spec2Model ----
(***************************************************************************)
(* check-lockfile-intersection (src/src/main.rs): two Cargo lockfiles are  *)
(* each reduced to a package universe (name -> (package, path)), the two   *)
(* universes are intersected by name, every name outside the intersection  *)
(* is excluded, the universes are rebuilt strictly, and the versions of    *)
(* the common names are compared.                                          *)
(*                                                                         *)
(* State::add_packages and everything below it is a function of the        *)
(* State it is called on; it is written here as operators on a State       *)
(* record, statement by statement.  Program::run is the state machine: one *)
(* action per call or loop iteration of run.                               *)
(***************************************************************************)
EXTENDS Naturals, Sequences, FiniteSets

(***************************************************************************)
(* Values                                                                  *)
(***************************************************************************)

\* Option::None, for pkg_name, pkg_hash, checksum, source.precise().
None == "None"

\* Package names in ascending order: Name is a String newtype with the
\* derived Ord, and BTreeMap / BTreeSet iterate in that order.
NameOrder == <<"a", "b", "c", "d", "r">>

Names == {NameOrder[i] : i \in 1..Len(NameOrder)}

Rank(n) == CHOOSE i \in 1..Len(NameOrder) : NameOrder[i] = n

\* The least name of a non-empty set, as BTreeSet::iter yields it first.
MinName(S) == CHOOSE n \in S : \A m \in S : Rank(n) <= Rank(m)

\* Phase (main.rs 72-76).
NameIntersection == "NameIntersection"

NameAndVersionIntersection == "NameAndVersionIntersection"

\* cargo_lock::Dependency: the name and version a package entry requires.
Dep(n, v) == [name |-> n, version |-> v]

\* cargo_lock::Package, with the fields main.rs reads: name, version,
\* checksum, source.precise(), dependencies.
Pkg(n, v, ck, pr, deps) ==
  [name |-> n, version |-> v, checksum |-> ck, precise |-> pr, dependencies |-> deps]

(***************************************************************************)
(* Pure functions of main.rs                                               *)
(***************************************************************************)

\* package_matches_hash (main.rs 115-131).
package_matches_hash(pkg, hash) ==
  \/ pkg.checksum # None /\ pkg.checksum = hash
  \/ pkg.precise # None /\ pkg.precise = hash

\* path_to_str (main.rs 133-138): the "name@version" items that are joined
\* with " -> ".
path_to_str(path) == [i \in 1..Len(path) |-> <<path[i].name, "@", path[i].version>>]

\* Dependency::matches as used at main.rs 198: same name and same version
\* (the registry below holds one entry per name and version).
DepMatches(dep, p) == dep.name = p.name /\ dep.version = p.version

\* self.lockfile.packages.iter().cloned().find(|p| dep.matches(p))
\* (main.rs 193-198): the first package in stored order that matches.
\* The Option is a sequence: <<p>> for Some(p), <<>> for None.
FindPackage(lockfile, dep) ==
  IF \E i \in 1..Len(lockfile) : DepMatches(dep, lockfile[i])
  THEN <<lockfile[CHOOSE i \in 1..Len(lockfile) :
                    /\ DepMatches(dep, lockfile[i])
                    /\ \A j \in 1..(i - 1) : ~DepMatches(dep, lockfile[j])]>>
  ELSE <<>>

(***************************************************************************)
(* State (main.rs 78-84) and its methods.                                  *)
(*                                                                         *)
(* A State record holds the struct's fields spec, lockfile, packages,      *)
(* phase, verbose, and with them what the call in progress has produced:   *)
(*   err      the Err(String) a `?` is propagating, or NoErr               *)
(*   out      the lines println! has written                               *)
(*   visited  the (package, path) pairs seeded or handed to                *)
(*            try_insert_package, in call order                            *)
(*   descents the packages add_all_dependencies_recursive was called on,   *)
(*            in call order                                                *)
(* packages is a function from the names bound to [pkg, path].             *)
(***************************************************************************)

EmptyMap == [n \in {} |-> None]

\* No Err is being propagated: the call returned, or will return, Ok.
NoErr == [kind |-> "Ok"]

\* BTreeMap::insert: binds or replaces the binding of key k.
MapInsert(m, k, v) == [n \in (DOMAIN m) \cup {k} |-> IF n = k THEN v ELSE m[n]]

\* State::new (main.rs 141-150).
NewState(spec, lockfile, verbose) ==
  [spec |-> spec, lockfile |-> lockfile, phase |-> NameIntersection,
   packages |-> EmptyMap, verbose |-> verbose,
   err |-> NoErr, out |-> <<>>, visited |-> <<>>, descents |-> <<>>]

\* The Err of main.rs 161-168.
VersionConflict(st, package, path) ==
  [kind |-> "VersionConflictWithinUniverse", name |-> package.name,
   src |-> st.spec.src, existing |-> st.packages[package.name].pkg.version,
   version |-> package.version, path |-> path_to_str(path)]

\* The Err of main.rs 233-236.
RootNotFound(st) ==
  [kind |-> "RootNotFound", pkg_name |-> st.spec.pkg_name,
   pkg_hash |-> st.spec.pkg_hash, src |-> st.spec.src]

\* try_insert_package without the phase test of main.rs 158: a second
\* version is an error in the name-only phase too.
try_insert_package_any_phase(st, package, path) ==
  LET s == [st EXCEPT !.visited = Append(@, [pkg |-> package, path |-> path])] IN
  IF package.name \in DOMAIN s.packages
  THEN IF s.packages[package.name].pkg.version # package.version
       THEN [st |-> [s EXCEPT !.err = VersionConflict(s, package, path)], ret |-> "Err"]
       ELSE [st |-> s, ret |-> "Ok(false)"]
  ELSE [st |-> [s EXCEPT
                  !.out = IF s.verbose
                          THEN Append(@, [line |-> "found", src |-> s.spec.src,
                                          name |-> package.name,
                                          version |-> package.version])
                          ELSE @,
                  !.packages = MapInsert(@, package.name,
                                         [pkg |-> package, path |-> path])],
        ret |-> "Ok(true)"]

\* try_insert_package (main.rs 152-182).  The result is the State after the
\* call and ret: "Err", "Ok(false)" or "Ok(true)".
try_insert_package(st, package, path) ==
  LET s == [st EXCEPT !.visited = Append(@, [pkg |-> package, path |-> path])] IN
  IF package.name \in DOMAIN s.packages
  THEN IF /\ s.phase = NameAndVersionIntersection
          /\ s.packages[package.name].pkg.version # package.version
       THEN [st |-> [s EXCEPT !.err = VersionConflict(s, package, path)], ret |-> "Err"]
       ELSE [st |-> s, ret |-> "Ok(false)"]
  ELSE [st |-> [s EXCEPT
                  !.out = IF s.verbose
                          THEN Append(@, [line |-> "found", src |-> s.spec.src,
                                          name |-> package.name,
                                          version |-> package.version])
                          ELSE @,
                  !.packages = MapInsert(@, package.name,
                                         [pkg |-> package, path |-> path])],
        ret |-> "Ok(true)"]

RECURSIVE add_all_dependencies_recursive(_, _, _)
RECURSIVE DependenciesFrom(_, _, _, _)

\* The loop with `return Ok(())` for the `continue` of main.rs 191: an
\* excluded dependency ends the loop.
DependenciesFrom_return_on_excluded(st, package, i, path) ==
  IF i > Len(package.dependencies) THEN st
  ELSE LET dep == package.dependencies[i] IN
       IF dep.name \in st.spec.exclude_pkgs
       THEN st
       ELSE LET found == FindPackage(st.lockfile, dep) IN
            IF found = <<>>
            THEN DependenciesFrom(st, package, i + 1, path)
            ELSE LET dep_pkg == found[1]
                     pushed == Append(path, dep_pkg)
                     ins == try_insert_package(st, dep_pkg, pushed)
                     after == IF ins.ret = "Ok(true)"
                              THEN add_all_dependencies_recursive(ins.st, dep_pkg, pushed)
                              ELSE ins.st
                 IN IF ins.ret = "Err" THEN ins.st
                    ELSE IF after.err.kind # "Ok" THEN after
                    ELSE DependenciesFrom(after, package, i + 1, path)

\* The loop without the exclusion test of main.rs 190-192.
DependenciesFrom_no_exclusion(st, package, i, path) ==
  IF i > Len(package.dependencies) THEN st
  ELSE LET dep == package.dependencies[i]
           found == FindPackage(st.lockfile, dep)
       IN IF found = <<>>
          THEN DependenciesFrom(st, package, i + 1, path)
          ELSE LET dep_pkg == found[1]
                   pushed == Append(path, dep_pkg)
                   ins == try_insert_package(st, dep_pkg, pushed)
                   after == IF ins.ret = "Ok(true)"
                            THEN add_all_dependencies_recursive(ins.st, dep_pkg, pushed)
                            ELSE ins.st
               IN IF ins.ret = "Err" THEN ins.st
                  ELSE IF after.err.kind # "Ok" THEN after
                  ELSE DependenciesFrom(after, package, i + 1, path)

\* The for loop of add_all_dependencies_recursive (main.rs 189-207) from
\* the i-th dependency of package on; path is the caller's path, which the
\* body pushes dep_pkg onto and pops again.
DependenciesFrom(st, package, i, path) ==
  IF i > Len(package.dependencies) THEN st
  ELSE LET dep == package.dependencies[i] IN
       IF dep.name \in st.spec.exclude_pkgs
       THEN DependenciesFrom(st, package, i + 1, path)
       ELSE LET found == FindPackage(st.lockfile, dep) IN
            IF found = <<>>
            THEN DependenciesFrom(st, package, i + 1, path)
            ELSE LET dep_pkg == found[1]
                     pushed == Append(path, dep_pkg)
                     ins == try_insert_package(st, dep_pkg, pushed)
                     after == IF ins.ret = "Ok(true)"
                              THEN add_all_dependencies_recursive(ins.st, dep_pkg, pushed)
                              ELSE ins.st
                 IN IF ins.ret = "Err" THEN ins.st
                    ELSE IF after.err.kind # "Ok" THEN after
                    ELSE DependenciesFrom(after, package, i + 1, path)

\* add_all_dependencies_recursive (main.rs 184-208).
add_all_dependencies_recursive(st, package, path) ==
  DependenciesFrom([st EXCEPT !.descents = Append(@, package)], package, 1, path)

\* The conditions under which the loop of add_packages_in_dependency_tree
\* does not `continue` (main.rs 213-225).
IsRootCandidate(st, package) ==
  /\ package.name \notin st.spec.exclude_pkgs
  /\ st.spec.pkg_name # None => package.name = st.spec.pkg_name
  /\ st.spec.pkg_hash # None => package_matches_hash(package, st.spec.pkg_hash)

\* The root walked without the insert of main.rs 228-229.
SeedRoot_not_bound(st, package) ==
  add_all_dependencies_recursive(
    [st EXCEPT !.visited = Append(@, [pkg |-> package, path |-> <<package>>])],
    package, <<package>>)

\* main.rs 227-231: the root is bound with BTreeMap::insert, then walked.
SeedRoot(st, package) ==
  LET path == <<package>> IN
  add_all_dependencies_recursive(
    [st EXCEPT !.packages = MapInsert(@, package.name, [pkg |-> package, path |-> path]),
               !.visited = Append(@, [pkg |-> package, path |-> path])],
    package, path)

RECURSIVE RootFrom(_, _)

\* The for loop of add_packages_in_dependency_tree from the i-th package on.
RootFrom(st, i) ==
  IF i > Len(st.lockfile) THEN [st EXCEPT !.err = RootNotFound(st)]
  ELSE IF IsRootCandidate(st, st.lockfile[i]) THEN SeedRoot(st, st.lockfile[i])
  ELSE RootFrom(st, i + 1)

\* add_packages_in_dependency_tree (main.rs 210-237).
add_packages_in_dependency_tree(st) == RootFrom(st, 1)

RECURSIVE InsertFrom(_, _, _)

\* The for loop of add_all_packages_in_lockfile (main.rs 248-252) from the
\* i-th of all_packages on.
InsertFrom(st, all_packages, i) ==
  IF i > Len(all_packages) THEN st
  ELSE LET ins == try_insert_package(st, all_packages[i], <<all_packages[i]>>) IN
       IF ins.ret = "Err" THEN ins.st
       ELSE InsertFrom(ins.st, all_packages, i + 1)

NotExcluded(st, x) == x.name \notin st.spec.exclude_pkgs

\* add_all_packages_in_lockfile (main.rs 239-254).
add_all_packages_in_lockfile(st) ==
  LET keep(x) == NotExcluded(st, x) IN
  InsertFrom(st, SelectSeq(st.lockfile, keep), 1)

\* add_packages (main.rs 256-262).
add_packages(st) ==
  IF st.spec.pkg_name # None \/ st.spec.pkg_hash # None
  THEN add_packages_in_dependency_tree(st)
  ELSE add_all_packages_in_lockfile(st)

(***************************************************************************)
(* The inputs: what Args::parse and load_lockfile hand to State::new.      *)
(***************************************************************************)

\* The package entries the lockfiles are drawn from, in the order Cargo
\* writes them (by name, then version).  b is locked in two versions; d
\* closes a cycle through r; "h" is the checksum of a and the git commit
\* (source.precise()) of r; c and r carry no checksum.
Registry ==
  << Pkg("a", "1.0", "h", None, <<Dep("b", "1.0")>>),
     Pkg("b", "1.0", "k", None, <<>>),
     Pkg("b", "2.0", "m", None, <<Dep("d", "1.0")>>),
     Pkg("c", "1.0", None, None, <<Dep("b", "1.0")>>),
     Pkg("d", "1.0", "n", None, <<Dep("r", "1.0")>>),
     Pkg("r", "1.0", None, "h", <<Dep("a", "1.0"), Dep("c", "1.0"), Dep("b", "2.0")>>) >>

RECURSIVE Pick(_, _, _)

\* The entries of reg at the positions in S, from position i on, in order.
Pick(reg, S, i) ==
  IF i > Len(reg) THEN <<>>
  ELSE IF i \in S THEN <<reg[i]>> \o Pick(reg, S, i + 1)
  ELSE Pick(reg, S, i + 1)

\* A lockfile locks some of the registry's entries, all but the ones at
\* the positions in dropped; a dependency on an entry it does not lock has
\* no target in it.
Lockfile(dropped) == Pick(Registry, (1..Len(Registry)) \ dropped, 1)

Lockfiles == {Lockfile(D) : D \in SUBSET (1..Len(Registry))}

\* --pkg-name-a / --pkg-name-b and --pkg-hash-a / --pkg-hash-b.
RootNames == {None, "r"}

RootHashes == {None, "h"}

\* A run is given the two whole-registry lockfiles and no exclusions, edited
\* at most MaxEdits times: an edit drops an entry from one lockfile or adds
\* a name to one --exclude-pkg list.
MaxEdits == 2

\* A single build is given any lockfile and at most MaxExcluded excluded
\* names.
MaxExcluded == 2

UpTo(S, k) == {T \in SUBSET S : Cardinality(T) <= k}

\* Spec (main.rs 9-15).
MkSpec(src, name, hash, excl) ==
  [src |-> src, pkg_name |-> name, pkg_hash |-> hash, exclude_pkgs |-> excl]

(***************************************************************************)
(* Program (main.rs 265-346)                                               *)
(***************************************************************************)

VARIABLES
  state_a,                  \* Program.state_a
  state_b,                  \* Program.state_b
  pc,                       \* where run is
  pass,                     \* which call of add_packages_and_calculate_intesection
  first_pass_intersection,  \* run's local (main.rs 294)
  intersection,             \* run's local (main.rs 322)
  todo,                     \* what intersection.iter() has yet to yield
  all_ok,                   \* run's local (main.rs 324)
  output,                   \* the lines written to standard output
  result,                   \* what main returns: "running", then Ok or the Err
  discovery                 \* state_a and state_b as the first pass left them

vars == <<state_a, state_b, pc, pass, first_pass_intersection, intersection,
          todo, all_ok, output, result, discovery>>

\* run's locals before run has assigned them.
Unassigned ==
  /\ pass = 1
  /\ first_pass_intersection = {}
  /\ intersection = {}
  /\ todo = {}
  /\ all_ok = TRUE
  /\ output = <<>>
  /\ result = [kind |-> "running"]
  /\ discovery = [a |-> state_a, b |-> state_b]

\* Program::new (main.rs 271-276), and run about to start.
Init ==
  \E da \in UpTo(1..Len(Registry), MaxEdits) :
  \E db \in UpTo(1..Len(Registry), MaxEdits - Cardinality(da)) :
  \E ea \in UpTo(Names, MaxEdits - Cardinality(da) - Cardinality(db)) :
  \E eb \in UpTo(Names, MaxEdits - Cardinality(da) - Cardinality(db) - Cardinality(ea)) :
  \E na \in RootNames, nb \in RootNames, ha \in RootHashes, hb \in RootHashes,
     verbose \in BOOLEAN :
    /\ state_a = NewState(MkSpec("A", na, ha, ea), Lockfile(da), verbose)
    /\ state_b = NewState(MkSpec("B", nb, hb, eb), Lockfile(db), verbose)
    /\ pc = "add_packages_a"
    /\ Unassigned

\* A State about to build its universe: any lockfile, any Spec with at most
\* MaxExcluded excluded names, either phase.
InitBuild ==
  \E lockfile \in Lockfiles, name \in RootNames, hash \in RootHashes,
     excluded \in UpTo(Names, MaxExcluded),
     phase \in {NameIntersection, NameAndVersionIntersection}, verbose \in BOOLEAN :
    /\ state_a = [NewState(MkSpec("A", name, hash, excluded), lockfile, verbose)
                    EXCEPT !.phase = phase]
    /\ state_b = NewState(MkSpec("B", None, None, {}), <<>>, verbose)
    /\ pc = "add_packages_a"
    /\ Unassigned

\* A State as a call of add_packages finds it: nothing produced yet.
Entered(st) == [st EXCEPT !.err = NoErr, !.out = <<>>, !.visited = <<>>, !.descents = <<>>]

\* self.state_a.add_packages()? (main.rs 279).
AddPackagesA ==
  /\ pc = "add_packages_a"
  /\ LET s == add_packages(Entered(state_a)) IN
       /\ state_a' = [s EXCEPT !.out = <<>>]
       /\ output' = output \o s.out
       /\ IF s.err.kind # "Ok"
          THEN pc' = "exit" /\ result' = s.err
          ELSE pc' = "add_packages_b" /\ result' = result
  /\ UNCHANGED <<state_b, pass, first_pass_intersection, intersection, todo,
                 all_ok, discovery>>

\* The call of main.rs 280 without its `?`: the Err is kept and run goes on.
AddPackagesB_no_return ==
  /\ pc = "add_packages_b"
  /\ LET s == add_packages(Entered(state_b)) IN
       /\ state_b' = [s EXCEPT !.out = <<>>]
       /\ output' = output \o s.out
       /\ pc' = "intersection"
       /\ result' = IF s.err.kind # "Ok" THEN s.err ELSE result
  /\ UNCHANGED <<state_a, pass, first_pass_intersection, intersection, todo,
                 all_ok, discovery>>

\* self.state_b.add_packages()? (main.rs 280).
AddPackagesB ==
  /\ pc = "add_packages_b"
  /\ LET s == add_packages(Entered(state_b)) IN
       /\ state_b' = [s EXCEPT !.out = <<>>]
       /\ output' = output \o s.out
       /\ IF s.err.kind # "Ok"
          THEN pc' = "exit" /\ result' = s.err
          ELSE pc' = "intersection" /\ result' = result
  /\ UNCHANGED <<state_a, pass, first_pass_intersection, intersection, todo,
                 all_ok, discovery>>

\* The union of the two key sets, for their intersection.
Common_union(package_names_a, package_names_b) == package_names_a \cup package_names_b

\* package_names_a.intersection(&package_names_b) (main.rs 283-286).
Common(package_names_a, package_names_b) == package_names_a \cap package_names_b

\* The rest of add_packages_and_calculate_intesection (main.rs 281-290),
\* and the assignment of what it returns (main.rs 294, 322-324).
CalculateIntersection ==
  /\ pc = "intersection"
  /\ LET package_names_a == DOMAIN state_a.packages
         package_names_b == DOMAIN state_b.packages
         common == Common(package_names_a, package_names_b)
     IN /\ output' = output \o
             << [line |-> "packages in lockfile A", n |-> Cardinality(package_names_a)],
                [line |-> "packages in lockfile B", n |-> Cardinality(package_names_b)],
                [line |-> "packages in common", n |-> Cardinality(common)] >>
        /\ IF pass = 1
           THEN /\ first_pass_intersection' = common
                /\ pc' = "exclude"
                /\ UNCHANGED <<intersection, todo, all_ok>>
           ELSE /\ intersection' = common
                /\ all_ok' = TRUE
                /\ todo' = common
                /\ pc' = "compare"
                /\ UNCHANGED first_pass_intersection
  /\ UNCHANGED <<state_a, state_b, pass, result, discovery>>

\* The loop excluding nothing.
Narrowed_nothing(st, common) == st.spec.exclude_pkgs

\* The exclude_pkgs of a side after the loop of main.rs 298-306 (307-315).
Narrowed(st, common) == st.spec.exclude_pkgs \cup ((DOMAIN st.packages) \ common)

\* main.rs 295-321: exclude what is outside the intersection, switch the
\* phase, clear the universes.
ExcludeOutsideIntersection ==
  /\ pc = "exclude"
  /\ discovery' = [a |-> state_a, b |-> state_b]
  /\ state_a' = [state_a EXCEPT !.spec.exclude_pkgs = Narrowed(state_a, first_pass_intersection),
                                !.phase = NameAndVersionIntersection,
                                !.packages = EmptyMap]
  /\ state_b' = [state_b EXCEPT !.spec.exclude_pkgs = Narrowed(state_b, first_pass_intersection),
                                !.phase = NameAndVersionIntersection,
                                !.packages = EmptyMap]
  /\ output' = output \o
       << [line |-> "excluding packages outside intersection and recalculating"],
          [line |-> "excluded more packages from lockfile A",
           n |-> Cardinality((DOMAIN state_a.packages) \ first_pass_intersection)],
          [line |-> "excluded more packages from lockfile B",
           n |-> Cardinality((DOMAIN state_b.packages) \ first_pass_intersection)] >>
  /\ pass' = 2
  /\ pc' = "add_packages_a"
  /\ UNCHANGED <<first_pass_intersection, intersection, todo, all_ok, result>>

\* What one iteration of the loop of main.rs 325-338 prints for name.
Compared(name) ==
  LET a == state_a.packages[name]
      b == state_b.packages[name]
  IN IF a.pkg.version = b.pkg.version
     THEN IF state_a.verbose
          THEN << [line |-> "SAME", name |-> name, version |-> a.pkg.version] >>
          ELSE <<>>
     ELSE << [line |-> "DIFFERENT", name |-> name, version_a |-> a.pkg.version,
              version_b |-> b.pkg.version],
             [line |-> "path A", path |-> path_to_str(a.path)],
             [line |-> "path B", path |-> path_to_str(b.path)] >>

\* all_ok assigned in both branches: the last name compared decides.
AllOkAfter_last_wins(ok, name) ==
  state_a.packages[name].pkg.version = state_b.packages[name].pkg.version

\* all_ok after the iteration for name (main.rs 328, 336).
AllOkAfter(ok, name) ==
  IF state_a.packages[name].pkg.version = state_b.packages[name].pkg.version
  THEN ok
  ELSE FALSE

\* One iteration of the loop of main.rs 325-338.
CompareNext ==
  /\ pc = "compare"
  /\ todo # {}
  /\ LET name == MinName(todo) IN
       /\ output' = output \o Compared(name)
       /\ all_ok' = AllOkAfter(all_ok, name)
       /\ todo' = todo \ {name}
  /\ UNCHANGED <<state_a, state_b, pc, pass, first_pass_intersection, intersection,
                 result, discovery>>

\* main.rs 339-344, once the loop has ended.
Verdict ==
  /\ pc = "compare"
  /\ todo = {}
  /\ IF all_ok
     THEN /\ output' = Append(output, [line |-> "All packages have the same versions"])
          /\ result' = [kind |-> "Ok"]
     ELSE /\ output' = output
          /\ result' = [kind |-> "Some packages have different versions"]
  /\ pc' = "exit"
  /\ UNCHANGED <<state_a, state_b, pass, first_pass_intersection, intersection,
                 todo, all_ok, discovery>>

Next ==
  \/ AddPackagesA
  \/ AddPackagesB
  \/ CalculateIntersection
  \/ ExcludeOutsideIntersection
  \/ CompareNext
  \/ Verdict

Spec == Init /\ [][Next]_vars

\* add_packages applied to a State: one build.
SpecBuild == InitBuild /\ [][AddPackagesA]_vars

(***************************************************************************)
(* Notions the properties are stated in                                    *)
(***************************************************************************)

\* The build of state_a has returned.
Built == pc # "add_packages_a"

Succeeded(st) == st.err.kind = "Ok"

Rooted(st) == st.spec.pkg_name # None \/ st.spec.pkg_hash # None

\* The names a universe binds.
Universe(st) == DOMAIN st.packages

\* The root a rooted build seeded.
SelectedRoot(st) == st.visited[1].pkg

PackagesOf(lockfile) == {lockfile[i] : i \in 1..Len(lockfile)}

NamesOf(lockfile) == {lockfile[i].name : i \in 1..Len(lockfile)}

\* q is the package the edge dep of a package resolves to: the first one
\* of the lockfile with dep's name and version.
ResolvesTo(lockfile, dep, q) ==
  \E i \in 1..Len(lockfile) :
    /\ lockfile[i] = q
    /\ q.name = dep.name /\ q.version = dep.version
    /\ \A j \in 1..(i - 1) :
         ~(lockfile[j].name = dep.name /\ lockfile[j].version = dep.version)

\* The packages one resolvable, not excluded dependency edge away from p.
Targets(lockfile, excluded, p) ==
  {q \in PackagesOf(lockfile) :
     \E k \in 1..Len(p.dependencies) :
       /\ p.dependencies[k].name \notin excluded
       /\ ResolvesTo(lockfile, p.dependencies[k], q)}

RECURSIVE Closure(_, _, _)

\* The packages reachable from those of S over such edges.
Closure(lockfile, excluded, S) ==
  LET T == S \cup UNION {Targets(lockfile, excluded, p) : p \in S} IN
  IF T = S THEN S ELSE Closure(lockfile, excluded, T)

\* The packages reachable from the root of a rooted build.
Reachable(st) == Closure(st.lockfile, st.spec.exclude_pkgs, {SelectedRoot(st)})

ReachableNames(st) == {p.name : p \in Reachable(st)}

\* The first (package, path) the build met under name n.
FirstVisited(st, n) ==
  st.visited[CHOOSE i \in 1..Len(st.visited) :
               /\ st.visited[i].pkg.name = n
               /\ \A j \in 1..(i - 1) : st.visited[j].pkg.name # n]

\* The build met two versions of one name.
TwoVersionsVisited(st) ==
  \E i, j \in 1..Len(st.visited) :
    /\ st.visited[i].pkg.name = st.visited[j].pkg.name
    /\ st.visited[i].pkg.version # st.visited[j].pkg.version

\* Every package the build met has the version its name is bound to.
VisitedAsBound(st) ==
  \A i \in 1..Len(st.visited) :
    /\ st.visited[i].pkg.name \in Universe(st)
    /\ st.packages[st.visited[i].pkg.name].pkg.version = st.visited[i].pkg.version

(***************************************************************************)
(* C1                                                                      *)
(***************************************************************************)

\* C1: a name-and-version build of run (the rebuild after narrowing) ends
\* in a version conflict or in a universe, in a version conflict whenever it
\* met two versions of a name, and when it succeeds every package it met has
\* the version bound to its name.
C1_ConflictOrUniverse ==
  (Built /\ state_a.phase = NameAndVersionIntersection) =>
    /\ state_a.err.kind \in {"Ok", "VersionConflictWithinUniverse"}
    /\ TwoVersionsVisited(state_a) => state_a.err.kind = "VersionConflictWithinUniverse"
    /\ Succeeded(state_a) => VisitedAsBound(state_a)

(***************************************************************************)
(* C2                                                                      *)
(***************************************************************************)

\* C2 as stated: in either phase, a successful build rooted by name binds
\* exactly the names of the packages reachable from the root.
C2_RootScopingEitherPhase ==
  (Built /\ state_a.spec.pkg_name # None /\ Succeeded(state_a)) =>
    Universe(state_a) = ReachableNames(state_a)

\* C2 amended: a successful name-and-version build rooted by name binds
\* exactly the names of the root and of the packages reachable from it over
\* resolvable dependency edges to names not excluded; a successful name-only
\* build binds the root's name and only names of such packages.
C2_RootScoping ==
  (Built /\ state_a.spec.pkg_name # None /\ Succeeded(state_a)) =>
    /\ SelectedRoot(state_a).name = state_a.spec.pkg_name
    /\ SelectedRoot(state_a).name \in Universe(state_a)
    /\ Universe(state_a) \subseteq ReachableNames(state_a)
    /\ state_a.phase = NameAndVersionIntersection =>
         Universe(state_a) = ReachableNames(state_a)

\* A successful name-and-version build rooted at r that skipped an excluded
\* name and an edge without target, and still reached three names, while
\* the lockfile holds a name it did not reach.
C2_Witness ==
  /\ Built /\ state_a.phase = NameAndVersionIntersection
  /\ state_a.spec.pkg_name = "r" /\ Succeeded(state_a)
  /\ state_a.spec.exclude_pkgs # {}
  /\ Cardinality(Universe(state_a)) >= 3
  /\ NamesOf(state_a.lockfile) \ (Universe(state_a) \cup state_a.spec.exclude_pkgs) # {}
  /\ \E k \in 1..Len(SelectedRoot(state_a).dependencies) :
       FindPackage(state_a.lockfile, SelectedRoot(state_a).dependencies[k]) = <<>>

(***************************************************************************)
(* C3                                                                      *)
(***************************************************************************)

\* C3: after a successful build in either phase no excluded name is bound,
\* and in a rooted build every package bound is reachable from the root
\* over edges to names not excluded.
C3_ExclusionCorrect ==
  (Built /\ Succeeded(state_a)) =>
    /\ Universe(state_a) \cap state_a.spec.exclude_pkgs = {}
    /\ Rooted(state_a) =>
         \A n \in Universe(state_a) : state_a.packages[n].pkg \in Reachable(state_a)

\* A successful rooted build with b excluded: the lockfile holds b 2.0 and
\* d, the root depends on b 2.0, d is reached through b 2.0 alone, and
\* neither is bound.
C3_Witness ==
  /\ Built /\ Succeeded(state_a) /\ Rooted(state_a)
  /\ state_a.spec.exclude_pkgs = {"b"}
  /\ SelectedRoot(state_a).name = "r"
  /\ {"b", "d"} \subseteq NamesOf(state_a.lockfile)
  /\ FindPackage(state_a.lockfile, Dep("b", "2.0")) # <<>>
  /\ {"b", "d"} \cap Universe(state_a) = {}
  /\ Cardinality(Universe(state_a)) >= 2

(***************************************************************************)
(* C7                                                                      *)
(***************************************************************************)

\* C7: a build returns, and within it the dependency edges of at most one
\* package per name are walked, that package being the one bound to the
\* name; so the descents are no more than the lockfile has names.
C7_OneDescentPerName ==
  Built =>
    /\ \A i, j \in 1..Len(state_a.descents) :
         state_a.descents[i].name = state_a.descents[j].name => i = j
    /\ \A i \in 1..Len(state_a.descents) :
         /\ state_a.descents[i].name \in Universe(state_a)
         /\ state_a.packages[state_a.descents[i].name].pkg = state_a.descents[i]
    /\ Len(state_a.descents) <= Cardinality(NamesOf(state_a.lockfile))

\* A rooted build that came back to its root over a dependency cycle and
\* returned Ok.
C7_Witness ==
  /\ Built /\ Succeeded(state_a) /\ Rooted(state_a)
  /\ Len(state_a.descents) >= 3
  /\ \E i \in 2..Len(state_a.visited) :
       /\ state_a.visited[i].pkg = SelectedRoot(state_a)
       /\ Len(state_a.visited[i].path) >= 4

(***************************************************************************)
(* C10                                                                     *)
(***************************************************************************)

\* C10: a name-only build never fails with a version conflict (only with
\* RootNotFound); every name it met stays bound to the first package and
\* path met under it, and only such first packages are descended into.
C10_NameOnlyFirstWins ==
  (Built /\ state_a.phase = NameIntersection) =>
    /\ state_a.err.kind \in {"Ok", "RootNotFound"}
    /\ Universe(state_a) = {state_a.visited[i].pkg.name : i \in 1..Len(state_a.visited)}
    /\ \A n \in Universe(state_a) : state_a.packages[n] = FirstVisited(state_a, n)
    /\ \A i \in 1..Len(state_a.descents) :
         state_a.descents[i] = FirstVisited(state_a, state_a.descents[i].name).pkg

\* A rooted name-only build that met b 2.0 after it had bound b 1.0 and
\* returned Ok with b 1.0 bound.
C10_Witness ==
  /\ Built /\ state_a.phase = NameIntersection /\ Succeeded(state_a)
  /\ Rooted(state_a)
  /\ "b" \in Universe(state_a)
  /\ state_a.packages["b"].pkg.version = "1.0"
  /\ \E i \in 1..Len(state_a.visited) :
       state_a.visited[i].pkg.name = "b" /\ state_a.visited[i].pkg.version = "2.0"

(***************************************************************************)
(* The run                                                                 *)
(***************************************************************************)

Fatal == {"RootNotFound", "VersionConflictWithinUniverse"}

\* Both calls of add_packages_and_calculate_intesection have returned Ok.
BothPassesComplete == pass = 2 /\ pc \in {"compare", "exit"} /\ result.kind \notin Fatal

\* run has returned, with Ok or with the Err of main.rs 343.
Compared_All == pc = "exit" /\ result.kind \notin Fatal

\* The Specs as given: discovery holds them until and after the narrowing.
GivenSpec(side) == IF side = "A" THEN discovery.a.spec ELSE discovery.b.spec

Unconstrained(spec) ==
  spec.pkg_name = None /\ spec.pkg_hash = None /\ spec.exclude_pkgs = {}

\* The lines of the output that are of the kinds in K, in order.
Lines(K) == LET isK(l) == l.line \in K IN SelectSeq(output, isK)

\* The names of S in ascending order.
Ascending(S) == LET inS(n) == n \in S IN SelectSeq(NameOrder, inS)

\* The two universes bind name to the same version.
SameVersion(name) ==
  state_a.packages[name].pkg.version = state_b.packages[name].pkg.version

(***************************************************************************)
(* C4                                                                      *)
(***************************************************************************)

\* C4: with no root and no exclusion given on either side, every
\* "N packages in common" line printed, in the first pass and in the
\* second, has for N the number of names the two lockfiles' package lists
\* share.
C4_IntersectionSize ==
  (Unconstrained(GivenSpec("A")) /\ Unconstrained(GivenSpec("B"))) =>
    \A i \in 1..Len(output) :
      output[i].line = "packages in common" =>
        output[i].n = Cardinality(NamesOf(state_a.lockfile) \cap NamesOf(state_b.lockfile))

\* Both sizes printed for two unconstrained lockfiles one of which lacks a
\* name of the other.
C4_Witness ==
  /\ Unconstrained(GivenSpec("A")) /\ Unconstrained(GivenSpec("B"))
  /\ Len(Lines({"packages in common"})) = 2
  /\ NamesOf(state_a.lockfile) # NamesOf(state_b.lockfile)
  /\ NamesOf(state_a.lockfile) \cap NamesOf(state_b.lockfile) # {}

(***************************************************************************)
(* C5                                                                      *)
(***************************************************************************)

\* The record the comparison of name is to emit.
Classified(name) ==
  IF SameVersion(name)
  THEN [line |-> "SAME", name |-> name, version |-> state_a.packages[name].pkg.version]
  ELSE [line |-> "DIFFERENT", name |-> name,
        version_a |-> state_a.packages[name].pkg.version,
        version_b |-> state_b.packages[name].pkg.version]

\* The names whose record is printed: all with --verbose, else the
\* DIFFERENT ones.
Printed == {n \in intersection : state_a.verbose \/ ~SameVersion(n)}

\* C5: when run has compared, the SAME and DIFFERENT lines are the records
\* of the names of the final intersection, one each, in ascending order of
\* name (the SAME ones being printed with --verbose only), names after a
\* DIFFERENT one included; and run returns Ok exactly when no name of the
\* intersection is DIFFERENT.
C5_Classification ==
  Compared_All =>
    /\ todo = {}
    /\ Lines({"SAME", "DIFFERENT"}) =
         [k \in 1..Cardinality(Printed) |-> Classified(Ascending(Printed)[k])]
    /\ result.kind = "Ok" <=> \A n \in intersection : SameVersion(n)
    /\ result.kind = "Ok" <=> Lines({"DIFFERENT"}) = <<>>
    /\ result.kind = "Ok" <=> Lines({"All packages have the same versions"}) # <<>>
    /\ result.kind # "Ok" => result.kind = "Some packages have different versions"

\* A verbose run that printed a DIFFERENT line, then a SAME line, and
\* returned the Err.
C5_Witness ==
  /\ Compared_All
  /\ result.kind = "Some packages have different versions"
  /\ \E i, j \in 1..Len(output) :
       /\ i < j
       /\ output[i].line = "DIFFERENT" /\ output[i].name = "b"
       /\ output[j].line = "SAME"
  /\ Lines({"SAME"})[1].name = "a"

(***************************************************************************)
(* C6                                                                      *)
(***************************************************************************)

VerdictLines == Lines({"SAME", "DIFFERENT", "path A", "path B",
                       "All packages have the same versions"})

\* C6: a run that has ended in RootNotFound or a version conflict has
\* printed no SAME, no DIFFERENT and no summary line; a run that has
\* printed one is past every call that can fail, and when it has returned
\* it has compared every name of the intersection and returned the verdict.
C6_NoPartialSuccess ==
  /\ result.kind \in Fatal => (pc = "exit" /\ VerdictLines = <<>>)
  /\ pc = "compare" => result.kind = "running"
  /\ VerdictLines # <<>> =>
       /\ pass = 2 /\ pc \in {"compare", "exit"}
       /\ result.kind \notin Fatal
       /\ pc = "exit" =>
            /\ todo = {}
            /\ result.kind \in {"Ok", "Some packages have different versions"}
            /\ Len(Lines({"SAME", "DIFFERENT"})) = Cardinality(Printed)

\* A run that ended in a version conflict of lockfile B in the second
\* pass, after four builds' and one intersection's output.
C6_Witness ==
  /\ pc = "exit" /\ pass = 2
  /\ result.kind = "VersionConflictWithinUniverse" /\ result.src = "B"
  /\ Len(Lines({"packages in common"})) = 1
  /\ Len(Lines({"found"})) > 0

(***************************************************************************)
(* C8                                                                      *)
(***************************************************************************)

\* C8 as stated: when both passes complete, each rebuilt universe binds
\* only names its side's discovery universe bound, and the final
\* intersection is within the first.
C8_NarrowingOnlyRemoves ==
  BothPassesComplete =>
    /\ Universe(state_a) \subseteq Universe(discovery.a)
    /\ Universe(state_b) \subseteq Universe(discovery.b)
    /\ intersection \subseteq first_pass_intersection

\* C8 amended: when both passes complete, a rebuilt universe binds no name
\* its side's discovery universe bound outside the first intersection; on
\* a side built from the whole lockfile it binds exactly the discovery
\* names within the first intersection; and if either side is built from
\* the whole lockfile the final intersection is within the first.  (A
\* rooted rebuild can bind names its discovery did not.)
C8_NarrowingRemovesOutside ==
  BothPassesComplete =>
    /\ Universe(state_a) \cap Universe(discovery.a) \subseteq first_pass_intersection
    /\ Universe(state_b) \cap Universe(discovery.b) \subseteq first_pass_intersection
    /\ ~Rooted(state_a) =>
         Universe(state_a) = Universe(discovery.a) \cap first_pass_intersection
    /\ ~Rooted(state_b) =>
         Universe(state_b) = Universe(discovery.b) \cap first_pass_intersection
    /\ (~Rooted(state_a) \/ ~Rooted(state_b)) => intersection \subseteq first_pass_intersection

\* Both passes complete, A built from the whole lockfile and B from a root;
\* the narrowing excluded a name from B, and the final intersection lost a
\* name of the first that B reached through it.
C8_Witness ==
  /\ BothPassesComplete
  /\ ~Rooted(state_a) /\ Rooted(state_b)
  /\ Universe(discovery.b) \ first_pass_intersection # {}
  /\ intersection # first_pass_intersection
  /\ intersection # {}

(***************************************************************************)
(* C9                                                                      *)
(***************************************************************************)

\* Package p has the root name and hash spec asks for.
MatchesRoot(spec, p) ==
  /\ spec.pkg_name # None => p.name = spec.pkg_name
  /\ spec.pkg_hash # None => (p.checksum = spec.pkg_hash \/ p.precise = spec.pkg_hash)

\* The side's lockfile holds a package with the root name and hash asked
\* for whose name is not in the exclusion list given.
RootAvailable(side) ==
  LET lockfile == IF side = "A" THEN state_a.lockfile ELSE state_b.lockfile IN
  \E p \in PackagesOf(lockfile) :
    MatchesRoot(GivenSpec(side), p) /\ p.name \notin GivenSpec(side).exclude_pkgs

\* The second build of the side has run.
Rebuilt(side) ==
  /\ pass = 2
  /\ IF side = "A" THEN pc # "add_packages_a"
     ELSE \/ pc \in {"intersection", "compare"}
          \/ pc = "exit" /\ (result.kind \notin Fatal \/ result.src = "B")

\* C9: a run ends in RootNotFound only on a side whose lockfile holds no
\* package with the root name and hash asked for outside the exclusion
\* list given; and a rooted side whose discovery build selected a root
\* selects the same package in its second build.
C9_RootNotFoundOnlyWithoutRoot ==
  /\ result.kind = "RootNotFound" => ~RootAvailable(result.src)
  /\ (Rebuilt("A") /\ Rooted(state_a)) =>
       /\ state_a.err.kind # "RootNotFound"
       /\ SelectedRoot(state_a) = SelectedRoot(discovery.a)
  /\ (Rebuilt("B") /\ Rooted(state_b)) =>
       /\ state_b.err.kind # "RootNotFound"
       /\ SelectedRoot(state_b) = SelectedRoot(discovery.b)

====
